---- MODULE Spec2Model ----
(***************************************************************************)
(* A model of pythemes (src/pythemes/__main__.py): the line matcher        *)
(* `find`, the per-application patch engine (App.validate, App.has_changes,*)
(* App.update) and the theme runner (Theme.parse_apps, process_theme,      *)
(* handle_theme_updates).                                                  *)
(*                                                                         *)
(* Text is modelled character by character: a string is a sequence of      *)
(* one-character strings.  The placeholder token '{theme}' of a query is   *)
(* one symbol, PH.  A line of a file is its text without the trailing      *)
(* newline: a newline is whitespace, so the group (\S+) never captures it, *)
(* and the texts of the model contain none.                                *)
(***************************************************************************)
EXTENDS Integers, Sequences, FiniteSets, TLC

VARIABLES
    pc,                \* position of the invocation
    mode,              \* args.mode
    dry_run,           \* args.dry_run (Theme.dry_run, App.dry_run, SysOps.dry_run)
    fs,                \* the file system: path -> [exists, lines]
    inifile,           \* the configuration document (its sections, in order)
    apps,              \* Theme.apps, in insertion order
    cmds,              \* Theme.cmds
    wallpaper,         \* Theme.wallpaper (NoWallpaper when the attribute is not set)
    PROGRAMS_RESTART,  \* the module-level restart list
    updates,           \* Theme.updates
    commander,         \* Commander.cmds of process_theme
    n_errors,          \* n_errors of handle_theme_updates
    events,            \* what the run did to its collaborators, in order
    cursor,            \* the application the loop of process_theme is at
    call,              \* arguments of the last direct call of find
    ret                \* value returned by the last direct call

vars == <<pc, mode, dry_run, fs, inifile, apps, cmds, wallpaper,
          PROGRAMS_RESTART, updates, commander, n_errors, events, cursor,
          call, ret>>

----------------------------------------------------------------------------
(* Texts *)

\* the placeholder token of a query
PH == "{theme}"

\* what the placeholder is compiled into
GROUP == "(\\S+)"

SPACE == " "

\* \S of the regular expression
IsNonSpace(c) == c # SPACE

\* the text of a mode name, as characters
ModeText(m) ==
    IF m = "light" THEN <<"l", "i", "g", "h", "t">>
    ELSE IF m = "dark" THEN <<"d", "a", "r", "k">>
    ELSE <<>>

\* s[i:] of Python, for a 1-based i
DropFirst(s, n) == SubSeq(s, n + 1, Len(s))

\* s.startswith(p) at 1-based position i
StartsAt(s, p, i) ==
    /\ i + Len(p) - 1 <= Len(s)
    /\ \A k \in 1..Len(p) : s[i + k - 1] = p[k]

\* str.replace(old, new): every non-overlapping occurrence, left to right
RECURSIVE str_replace(_, _, _)
str_replace(s, old, new) ==
    IF old = <<>> \/ Len(s) < Len(old) THEN s
    ELSE IF StartsAt(s, old, 1)
         THEN new \o str_replace(DropFirst(s, Len(old)), old, new)
         ELSE <<Head(s)>> \o str_replace(Tail(s), old, new)

----------------------------------------------------------------------------
(* find *)

NOT_FOUND == [idx |-> -1, value |-> <<>>]

\* re.escape(query).replace('\\{theme\\}', '(\\S+)')
pattern(query) ==
    [i \in 1..Len(query) |-> IF query[i] = PH THEN GROUP ELSE query[i]]

\* the backtracking matcher: can pat match line from position pos on
RECURSIVE MatchFrom(_, _, _)
MatchFrom(pat, line, pos) ==
    IF pat = <<>> THEN TRUE
    ELSE IF Head(pat) = GROUP
         THEN \E n \in 1..(Len(line) - pos + 1) :
                 /\ \A k \in pos..(pos + n - 1) : IsNonSpace(line[k])
                 /\ MatchFrom(Tail(pat), line, pos + n)
         ELSE /\ pos <= Len(line)
              /\ line[pos] = Head(pat)
              /\ MatchFrom(Tail(pat), line, pos + 1)

\* a mutant of search: regex.match, which matches at the start of the line only
search_anchored(pat, line) == IF MatchFrom(pat, line, 1) THEN 1 ELSE 0

\* regex.search(line): the leftmost position where the pattern matches (0: none)
search(pat, line) ==
    LET starts == {s \in 1..(Len(line) + 1) : MatchFrom(pat, line, s)}
    IN  IF starts = {} THEN 0
        ELSE CHOOSE s \in starts : \A t \in starts : s <= t

\* match.group(1): the greedy capture of the first group of a match at start
group1(pat, line, start) ==
    LET g  == CHOOSE k \in 1..Len(pat) :
                  pat[k] = GROUP /\ \A j \in 1..(k - 1) : pat[j] # GROUP
        gs == start + g - 1
        ns == {n \in 1..(Len(line) - gs + 1) :
                  /\ \A k \in gs..(gs + n - 1) : IsNonSpace(line[k])
                  /\ MatchFrom(DropFirst(pat, g), line, gs + n)}
        n  == CHOOSE m \in ns : \A o \in ns : o <= m
    IN  SubSeq(line, gs, gs + n - 1)

\* the loop of find over the lines; i is the 0-based index of Head(rest)
RECURSIVE find_loop(_, _, _)
find_loop(pat, rest, i) ==
    IF rest = <<>> THEN NOT_FOUND
    ELSE LET s == search(pat, Head(rest))
         IN  IF s # 0
             THEN [idx |-> i, value |-> group1(pat, Head(rest), s)]
             ELSE find_loop(pat, Tail(rest), i + 1)

\* a mutant of find: the check for the placeholder is missing, and a query
\* without one yields the first line that holds it
find_without_placeholder_check(query, list_strings) ==
    IF Len(list_strings) = 0 THEN NOT_FOUND
    ELSE IF query = <<>> THEN NOT_FOUND
    ELSE IF \A i \in 1..Len(query) : query[i] # PH
    THEN IF \E i \in 1..Len(list_strings) : search(query, list_strings[i]) # 0
         THEN [idx |-> (CHOOSE i \in 1..Len(list_strings) :
                          /\ search(query, list_strings[i]) # 0
                          /\ \A j \in 1..(i - 1) : search(query, list_strings[j]) = 0) - 1,
               value |-> query]
         ELSE NOT_FOUND
    ELSE find_loop(pattern(query), list_strings, 0)

find(query, list_strings) ==
    IF Len(list_strings) = 0 THEN NOT_FOUND
    ELSE IF query = <<>> THEN NOT_FOUND
    ELSE IF \A i \in 1..Len(query) : query[i] # PH THEN NOT_FOUND
    ELSE find_loop(pattern(query), list_strings, 0)

----------------------------------------------------------------------------
(* Files *)

\* the paths an application may name; NoPath is a path with no file behind it
Paths == {"f1", "f2"}
NoPath == "gone"

\* Path.exists()
exists(fsys, f) == f \in DOMAIN fsys /\ fsys[f].exists

\* Files.readlines, for a file that exists
readlines(fsys, f) == fsys[f].lines

\* Files.savelines: the whole buffer replaces the content of the file
savelines(fsys, f, lines) ==
    [p \in DOMAIN fsys |-> IF p = f THEN [exists |-> TRUE, lines |-> lines]
                                    ELSE fsys[p]]

----------------------------------------------------------------------------
(* App *)

\* None where a text is expected (_next_theme: str | None)
NONE == <<"None">>

\* args.mode when no -m is given
MODE_NONE == "None"

\* the marker of a raised ThemeModeError
THEME_MODE_ERROR == <<"ThemeModeError">>

NoError == [occurred |-> FALSE, mesg |-> ""]

Event(op, who) == [op |-> op, who |-> who]

\* App.new
App_new(data, dry) ==
    [name |-> data.name, file |-> data.file, query |-> data.query,
     light |-> data.light, dark |-> data.dark, cmd |-> data.cmd,
     dry_run |-> dry, error |-> NoError,
     line_idx |-> -1, next_theme |-> NONE, lines |-> <<>>]

\* App.get_mode: None for a mode that is neither light nor dark
get_mode(app, m) ==
    IF m = "light" THEN app.light
    ELSE IF m = "dark" THEN app.dark
    ELSE NONE

\* App.replace
replace(app, index, string) ==
    [app EXCEPT !.lines = [app.lines EXCEPT ![index + 1] = string]]

\* the end of App.find_current_theme, for the lines read and what find returned
current_theme_of(app, r) ==
    IF r.idx = -1
    THEN [app |-> [app EXCEPT !.error =
                      [occurred |-> TRUE, mesg |-> "query not found"]],
          idx |-> -1, current |-> NONE, exc |-> "none",
          evs |-> <<Event("read", app.name)>>]
    ELSE [app |-> app, idx |-> r.idx, current |-> r.value, exc |-> "none",
          evs |-> <<Event("read", app.name)>>]

\* App.find_current_theme: reads the file, then looks the query up in it
find_current_theme(app, fsys) ==
    IF ~exists(fsys, app.file)
    THEN [app |-> app, idx |-> -1, current |-> NONE,
          exc |-> "FileNotFoundError", evs |-> <<>>]
    ELSE current_theme_of([app EXCEPT !.lines = readlines(fsys, app.file)],
                          find(app.query, readlines(fsys, app.file)))

\* App.determine_next_theme: every occurrence of the current value in the
\* matched line is replaced by the value of the mode
determine_next_theme(app, current_theme, m) ==
    IF get_mode(app, m) = NONE \/ get_mode(app, m) = <<>>
    THEN THEME_MODE_ERROR
    ELSE str_replace(app.lines[app.line_idx + 1], current_theme, get_mode(app, m))

\* a mutant of changes_of: a change is reported whenever the current value is
\* not the name of the mode
changes_of_by_mode_name(app, current_theme, next_theme, m, evs) ==
    IF next_theme = THEME_MODE_ERROR
    THEN [app |-> app, ret |-> FALSE, exc |-> "ThemeModeError", evs |-> evs]
    ELSE [app |-> [app EXCEPT !.next_theme = next_theme],
          ret |-> current_theme # ModeText(m),
          exc |-> "none", evs |-> evs]

\* the end of App.has_changes, once the next theme is determined
changes_of(app, current_theme, next_theme, m, evs) ==
    IF next_theme = THEME_MODE_ERROR
    THEN [app |-> app, ret |-> FALSE, exc |-> "ThemeModeError", evs |-> evs]
    ELSE [app |-> [app EXCEPT !.next_theme = next_theme],
          ret |-> IF current_theme = ModeText(m) THEN FALSE
                  ELSE app.lines[app.line_idx + 1] # next_theme,
          exc |-> "none", evs |-> evs]

\* App.has_changes after find_current_theme has returned r
has_changes_of(r, m) ==
    IF r.exc # "none"
    THEN [app |-> r.app, ret |-> FALSE, exc |-> r.exc, evs |-> r.evs]
    ELSE IF r.idx = -1 \/ r.current = NONE
    THEN [app |-> r.app, ret |-> FALSE, exc |-> "none", evs |-> r.evs]
    ELSE changes_of([r.app EXCEPT !.line_idx = r.idx], r.current,
                    determine_next_theme([r.app EXCEPT !.line_idx = r.idx],
                                         r.current, m),
                    m, r.evs)

\* a mutant of App.has_changes: the query is looked up in the lines the
\* application already holds, the file is not read again
has_changes_from_buffer(app, fsys, m) ==
    has_changes_of(current_theme_of(app, find(app.query, app.lines)), m)

\* App.has_changes
has_changes(app, fsys, m) == has_changes_of(find_current_theme(app, fsys), m)

\* the end of App.update: the line is replaced and the buffer saved
apply_update(app, fsys, evs) ==
    [app |-> app, fs |-> savelines(fsys, app.file, app.lines),
     out |-> "applied", exc |-> "none",
     evs |-> evs \o <<Event("write", app.name)>>]

\* a mutant of update_of: the dry_run flag is not looked at
update_of_ignoring_dry_run(h, fsys) ==
    IF h.exc # "none"
    THEN [app |-> h.app, fs |-> fsys, out |-> "raised", exc |-> h.exc, evs |-> h.evs]
    ELSE IF ~h.ret
    THEN [app |-> h.app, fs |-> fsys, out |-> "no changes", exc |-> "none",
          evs |-> h.evs]
    ELSE IF h.app.next_theme = NONE \/ h.app.next_theme = <<>>
    THEN [app |-> h.app, fs |-> fsys, out |-> "err not updated", exc |-> "none",
          evs |-> h.evs]
    ELSE apply_update(replace(h.app, h.app.line_idx, h.app.next_theme), fsys, h.evs)

\* App.update after has_changes has returned h
update_of(h, fsys) ==
    IF h.exc # "none"
    THEN [app |-> h.app, fs |-> fsys, out |-> "raised", exc |-> h.exc, evs |-> h.evs]
    ELSE IF ~h.ret
    THEN [app |-> h.app, fs |-> fsys, out |-> "no changes", exc |-> "none",
          evs |-> h.evs]
    ELSE IF h.app.next_theme = NONE \/ h.app.next_theme = <<>>
    THEN [app |-> h.app, fs |-> fsys, out |-> "err not updated", exc |-> "none",
          evs |-> h.evs]
    ELSE IF h.app.dry_run
    THEN [app |-> h.app, fs |-> fsys, out |-> "dry run", exc |-> "none",
          evs |-> h.evs]
    ELSE apply_update(replace(h.app, h.app.line_idx, h.app.next_theme), fsys, h.evs)

\* has_changes called again on what a first call returned
has_changes_again(h, fsys, m) ==
    [has_changes(h.app, fsys, m) EXCEPT !.evs = h.evs \o @]

\* a mutant of update: has_changes is called a second time before the write
update_checking_twice(app, fsys, m) ==
    update_of(has_changes_again(has_changes(app, fsys, m), fsys, m), fsys)

\* App.update
update(app, fsys, m) == update_of(has_changes(app, fsys, m), fsys)

Err(app, mesg) == [app EXCEPT !.error = [occurred |-> TRUE, mesg |-> mesg]]

\* the end of App.validate: what find_current_theme left on the record
validated(r) == [app |-> r.app, exc |-> r.exc, evs |-> r.evs]

\* App.validate from the check of the query on
validate_query(app, fsys) ==
    IF app.query = <<>>
    THEN [app |-> Err(app, "no query specified."), exc |-> "none", evs |-> <<>>]
    ELSE IF \A i \in 1..Len(app.query) : app.query[i] # PH
    THEN [app |-> Err(app, "query does not contain placeholder '{theme}'."),
          exc |-> "none", evs |-> <<>>]
    ELSE IF ~exists(fsys, app.file)
    THEN [app |-> Err(app, "filepath do not exists."), exc |-> "none", evs |-> <<>>]
    ELSE validated(find_current_theme(app, fsys))

\* App.validate from the check of the light value on
validate_light(app, fsys) ==
    validate_query(IF app.light = <<>> THEN Err(app, "no light theme specified.")
                   ELSE app, fsys)

\* App.validate: an empty dark or light value is recorded and the checks go on
validate(app, fsys) ==
    IF app.file = ""
    THEN [app |-> Err(app, "no file specified."), exc |-> "none", evs |-> <<>>]
    ELSE validate_light(IF app.dark = <<>> THEN Err(app, "no dark theme specified.")
                        ELSE app, fsys)

\* a mutant of process_app: an application with an error ends the run
process_app_exit_on_error(app, fsys, m) ==
    IF m = MODE_NONE \/ app.error.occurred
    THEN [app |-> app, fs |-> fsys, out |-> "exit", exc |-> "SystemExit", evs |-> <<>>]
    ELSE update(app, fsys, m)

\* process_app
process_app(app, fsys, m) ==
    IF m = MODE_NONE
    THEN [app |-> app, fs |-> fsys, out |-> "exit", exc |-> "SystemExit", evs |-> <<>>]
    ELSE IF app.error.occurred
    THEN [app |-> app, fs |-> fsys, out |-> "err", exc |-> "none", evs |-> <<>>]
    ELSE update(app, fsys, m)

----------------------------------------------------------------------------
(* Wallpaper, ModeAction, Cmd, SysOps *)

NoWallpaper ==
    [present |-> FALSE, dark |-> "", light |-> "", random |-> "", cmd |-> "",
     dry_run |-> FALSE, error |-> NoError]

\* a mutant of Wallpaper.new: the message of the first missing field is kept
Wallpaper_new_first_message(data, dry) ==
    LET get(k) == IF k \in data.opts THEN data[k] ELSE ""
        m4 == IF get("cmd") = "" THEN "no 'cmd' wallpaper specified." ELSE ""
        m3 == IF get("random") = "" THEN "no 'random' wallpaper specified." ELSE m4
        m2 == IF get("light") = "" THEN "no 'light' wallpaper specified." ELSE m3
        m1 == IF get("dark") = "" THEN "no 'dark' wallpaper specified." ELSE m2
    IN  [present |-> TRUE, dark |-> get("dark"), light |-> get("light"),
         random |-> get("random"), cmd |-> get("cmd"), dry_run |-> dry,
         error |-> [occurred |-> m1 # "", mesg |-> m1]]

\* Wallpaper.new: the message of the last missing field is kept
Wallpaper_new(data, dry) ==
    LET get(k) == IF k \in data.opts THEN data[k] ELSE ""
        m1 == IF get("dark") = "" THEN "no 'dark' wallpaper specified." ELSE ""
        m2 == IF get("light") = "" THEN "no 'light' wallpaper specified." ELSE m1
        m3 == IF get("random") = "" THEN "no 'random' wallpaper specified." ELSE m2
        m4 == IF get("cmd") = "" THEN "no 'cmd' wallpaper specified." ELSE m3
    IN  [present |-> TRUE, dark |-> get("dark"), light |-> get("light"),
         random |-> get("random"), cmd |-> get("cmd"), dry_run |-> dry,
         error |-> [occurred |-> m4 # "", mesg |-> m4]]

\* Wallpaper.get
Wallpaper_get(w, m, fallback) ==
    IF m = "light" THEN w.light
    ELSE IF m = "dark" THEN w.dark
    ELSE fallback

\* what subprocess.run does with a command: the process exits with 0 or with
\* another code, or the executable is not found
ProcResults == {"exit 0", "exit 1", "FileNotFoundError"}

\* a mutant of SysOps.run: FileNotFoundError is not caught
SysOps_run_without_except(who, result) ==
    IF result = "FileNotFoundError"
    THEN [ret |-> 1, exc |-> "FileNotFoundError", evs |-> <<>>]
    ELSE IF result = "exit 1"
    THEN [ret |-> 1, exc |-> "none", evs |-> <<Event("exit 1", who)>>]
    ELSE [ret |-> 0, exc |-> "none", evs |-> <<>>]

\* SysOps.run for the command of who: FileNotFoundError is caught, printed
\* as [err] and answered with 1; otherwise the exit code is returned (check
\* is False). The event exit 1 records what the process answered.
SysOps_run(who, result) ==
    IF result = "FileNotFoundError"
    THEN [ret |-> 1, exc |-> "none", evs |-> <<Event("[err]", who)>>]
    ELSE IF result = "exit 1"
    THEN [ret |-> 1, exc |-> "none", evs |-> <<Event("exit 1", who)>>]
    ELSE [ret |-> 0, exc |-> "none", evs |-> <<>>]

\* a caller of SysOps.run: the command is started (ev) and the value that
\* SysOps.run returns is dropped
ran(ev, r) == [exc |-> r.exc, evs |-> <<ev>> \o r.evs]

\* Wallpaper.apply; is_file is what path.is_file() answers
Wallpaper_apply(w, path, is_file, result) ==
    IF w.error.occurred
    THEN [exc |-> "none", evs |-> <<Event("wallpaper err", path)>>]
    ELSE IF ~is_file
    THEN [exc |-> "InvalidFilePathError", evs |-> <<>>]
    ELSE IF w.dry_run
    THEN [exc |-> "none", evs |-> <<Event("wallpaper dry run", path)>>]
    ELSE ran(Event("wallpaper", path), SysOps_run(path, result))

\* Wallpaper.set: randx() is evaluated before get and apply; randx_ok is
\* whether the random directory exists, is a directory and holds a file
Wallpaper_set(w, m, randx_ok, is_file, result) ==
    IF ~randx_ok
    THEN [exc |-> "FileNotFoundError", evs |-> <<>>]
    ELSE Wallpaper_apply(w, Wallpaper_get(w, m, "random.png"), is_file, result)

\* ModeAction.new
ModeAction_new(data, dry) ==
    [name |-> data.name, light |-> data.light, dark |-> data.dark,
     cmd |-> data.cmd, dry_run |-> dry]

\* a mutant of ModeAction_command: the light value for every mode
ModeAction_command_light(a, m) == <<a.cmd, SPACE>> \o a.light

\* the text that ModeAction.load hands to SysOps.run, f'{self.cmd} {mode}',
\* with the template as one symbol
ModeAction_command(a, m) == <<a.cmd, SPACE>> \o get_mode(a, m)

\* ModeAction.load: get_mode raises ValueError for a mode that is neither
ModeAction_load(a, m, result) ==
    IF m \notin {"light", "dark"}
    THEN [exc |-> "ValueError", evs |-> <<>>]
    ELSE IF a.dry_run
    THEN [exc |-> "none", evs |-> <<Event("action dry run", a.name)>>]
    ELSE ran(Event("action", a.name), SysOps_run(a.name, result))

\* r, then t when r did not raise
then(r, t) ==
    IF r.exc # "none" THEN r ELSE [exc |-> t.exc, evs |-> r.evs \o t.evs]

\* the loop over theme.cmds of handle_theme_updates
RECURSIVE load_all(_, _, _)
load_all(as, m, result) ==
    IF as = <<>> THEN [exc |-> "none", evs |-> <<>>]
    ELSE IF ModeAction_load(Head(as), m, result).exc # "none"
    THEN ModeAction_load(Head(as), m, result)
    ELSE then(ModeAction_load(Head(as), m, result), load_all(Tail(as), m, result))

\* Cmd.run
Cmd_run(c, sys_dry_run, result) ==
    IF c.cmd = "" THEN [exc |-> "none", evs |-> <<>>]
    ELSE IF sys_dry_run
    THEN [exc |-> "none", evs |-> <<Event("cmd dry run", c.name)>>]
    ELSE ran(Event("cmd", c.name), SysOps_run(c.name, result))

\* Commander.run
RECURSIVE Commander_run(_, _, _)
Commander_run(cs, sys_dry_run, result) ==
    IF cs = <<>> THEN [exc |-> "none", evs |-> <<>>]
    ELSE IF Cmd_run(Head(cs), sys_dry_run, result).exc # "none"
    THEN Cmd_run(Head(cs), sys_dry_run, result)
    ELSE then(Cmd_run(Head(cs), sys_dry_run, result),
              Commander_run(Tail(cs), sys_dry_run, result))

\* SysOps.restart: pidof is asked first and raises when it finds no process
\* (subprocess.check_output); running is the set of names that have a process
SysOps_restart(s, running, sys_dry_run) ==
    IF s \notin running
    THEN [exc |-> "CalledProcessError", evs |-> <<Event("pidof", s)>>]
    ELSE IF sys_dry_run
    THEN [exc |-> "none", evs |-> <<Event("pidof", s)>>]
    ELSE [exc |-> "none", evs |-> <<Event("pidof", s), Event("signal", s)>>]

\* the loop over PROGRAMS_RESTART of handle_theme_updates
RECURSIVE restart_all(_, _, _)
restart_all(ps, running, sys_dry_run) ==
    IF ps = <<>> THEN [exc |-> "none", evs |-> <<>>]
    ELSE LET r == SysOps_restart(Head(ps), running, sys_dry_run)
         IN  IF r.exc # "none" THEN r
             ELSE LET t == restart_all(Tail(ps), running, sys_dry_run)
                  IN  [exc |-> t.exc, evs |-> r.evs \o t.evs]

----------------------------------------------------------------------------
(* Theme *)

\* Theme.errors
errors(as) == Cardinality({i \in 1..Len(as) : as[i].error.occurred})

\* Theme.has_updates
has_updates(n) == n > 0

\* a mutant of Theme.register_app: a later registration of a name replaces
\* the earlier one
register_app_overwriting(as, app) ==
    IF \E i \in 1..Len(as) : as[i].name = app.name
    THEN [i \in 1..Len(as) |-> IF as[i].name = app.name THEN app ELSE as[i]]
    ELSE Append(as, app)

\* Theme.register_app: the first registration of a name is kept
register_app(as, app) ==
    IF \E i \in 1..Len(as) : as[i].name = app.name THEN as ELSE Append(as, app)

\* Theme.register_cmd
register_cmd(cs, cmd) == Append(cs, cmd)

\* a validated application is registered
registered(acc, v) ==
    [acc EXCEPT !.apps = register_app(@, v.app), !.evs = @ \o v.evs]

\* the body of the loop of Theme.parse_apps: a section without file and query
\* is an action, one without file is skipped, any other is an application
parse_section(values, fsys, dry, acc) ==
    IF values.file = "" /\ values.query = <<>> /\ values.name # "wallpaper"
    THEN [acc EXCEPT !.cmds = register_cmd(@, ModeAction_new(values, dry))]
    ELSE IF values.file = ""
    THEN acc
    ELSE registered(acc, validate(App_new(values, dry), fsys))

\* the loop of Theme.parse_apps over the parsed sections
RECURSIVE parse_loop(_, _, _, _)
parse_loop(data, fsys, dry, acc) ==
    IF data = <<>> THEN acc
    ELSE parse_loop(Tail(data), fsys, dry, parse_section(Head(data), fsys, dry, acc))

\* parse_restart: the names of the restart section, appended to the list
parse_restart(ini, restart) ==
    IF ini.restart.present THEN restart \o ini.restart.cmd ELSE restart

\* INIFile.data as the loop of Theme.parse_apps sees it: a wallpaper section
\* that holds no option is not popped and comes first, without a key
parsed_data(ini) ==
    IF ini.wallpaper.present /\ ini.wallpaper.opts = {}
    THEN <<[name |-> "wallpaper", file |-> "", query |-> <<>>, light |-> <<>>,
            dark |-> <<>>, cmd |-> ""]>> \o ini.programs
    ELSE ini.programs

\* Theme.parse_apps: the wallpaper record is made when the section holds an option
parse_apps(ini, fsys, dry) ==
    LET r == parse_loop(parsed_data(ini), fsys, dry,
                        [apps |-> <<>>, cmds |-> <<>>, evs |-> <<>>])
    IN  [apps |-> r.apps, cmds |-> r.cmds, evs |-> r.evs,
         wallpaper |-> IF ini.wallpaper.present /\ ini.wallpaper.opts # {}
                       THEN Wallpaper_new(ini.wallpaper, dry)
                       ELSE NoWallpaper]

----------------------------------------------------------------------------
(* The inputs of a theme run *)

\* the most sections of applications and actions in a document
MaxSections == 2

Modes == {"light", "dark"}

tA == <<"a">>
tB == <<"b">>

\* queries: 't{theme}', 'a{theme}' and one without the placeholder
QT == <<"t", PH>>
QA == <<"a", PH>>
QNoPH == <<"t", "a">>

SectionNames == <<"s1", "s2", "s3", "s4">>

CmdOf(f) == IF f = "f1" THEN "reload1" ELSE IF f = "f2" THEN "" ELSE "reload3"

\* the sections of a document, without their names
SectionShapes ==
    {[file |-> f, query |-> q, light |-> tA, dark |-> tB, cmd |-> CmdOf(f)] :
        f \in Paths \cup {NoPath}, q \in {QT, QA}}
    \cup {[file |-> "f1", query |-> QNoPH, light |-> tA, dark |-> tB, cmd |-> "reload1"],
          [file |-> "f1", query |-> QT, light |-> <<>>, dark |-> tB, cmd |-> "reload1"],
          [file |-> "", query |-> <<>>, light |-> tA, dark |-> tB, cmd |-> "act"],
          [file |-> "", query |-> QT, light |-> tA, dark |-> tB, cmd |-> "reload1"]}

Named(shape, i) ==
    [name |-> SectionNames[i], file |-> shape.file, query |-> shape.query,
     light |-> shape.light, dark |-> shape.dark, cmd |-> shape.cmd]

Documents ==
    UNION {{[i \in 1..n |-> Named(d[i], i)] : d \in [1..n -> SectionShapes]} :
              n \in 0..MaxSections}

NoSection == [present |-> FALSE, opts |-> {}, light |-> "", dark |-> "",
              random |-> "", cmd |-> ""]

WallpaperSections ==
    {NoSection,
     [present |-> TRUE, opts |-> {}, light |-> "", dark |-> "", random |-> "",
      cmd |-> ""],
     [present |-> TRUE, opts |-> {"light", "dark", "random", "cmd"},
      light |-> "light.png", dark |-> "dark.png", random |-> "walls", cmd |-> "feh"],
     [present |-> TRUE, opts |-> {"light", "dark", "random"},
      light |-> "light.png", dark |-> "dark.png", random |-> "walls", cmd |-> ""]}

RestartSections ==
    {[present |-> FALSE, cmd |-> <<>>], [present |-> TRUE, cmd |-> <<"p1", "p2">>]}

File(lines) == [exists |-> TRUE, lines |-> lines]

\* the target files before the run
FileSystems ==
    {[p \in Paths |-> IF p = "f1" THEN File(c1) ELSE File(c2)] :
        c1 \in {<<<<"t", "a">>>>, <<<<"a", "b">>, <<"t", "b">>>>},
        c2 \in {<<<<"t", "b">>>>, <<>>}}

----------------------------------------------------------------------------
(* A theme run: main, for a theme that is found *)

Init ==
    /\ pc = "start"
    /\ mode \in Modes
    /\ dry_run \in BOOLEAN
    /\ fs \in FileSystems
    /\ inifile \in {[programs |-> d, wallpaper |-> w, restart |-> r] :
                        d \in Documents, w \in WallpaperSections,
                        r \in RestartSections}
    /\ apps = <<>>
    /\ cmds = <<>>
    /\ wallpaper = NoWallpaper
    /\ PROGRAMS_RESTART = <<>>
    /\ updates = 0
    /\ commander = <<>>
    /\ n_errors = 0
    /\ events = <<>>
    /\ cursor = 0
    /\ call = <<>>
    /\ ret = <<>>

\* initialize_theme: Theme.parse_apps reads and parses the document, makes
\* the records and validates every application
initialize_theme ==
    /\ pc = "start"
    /\ IF inifile.programs = <<>> /\ ~inifile.wallpaper.present
       THEN /\ pc' = "crashed"
            /\ PROGRAMS_RESTART' = parse_restart(inifile, PROGRAMS_RESTART)
            /\ UNCHANGED <<apps, cmds, wallpaper, events, cursor>>
       ELSE LET t == parse_apps(inifile, fs, dry_run)
            IN  /\ apps' = t.apps
                /\ cmds' = t.cmds
                /\ wallpaper' = t.wallpaper
                /\ PROGRAMS_RESTART' = parse_restart(inifile, PROGRAMS_RESTART)
                /\ events' = events \o t.evs
                /\ cursor' = 1
                /\ pc' = IF t.apps = <<>> THEN "handle" ELSE "process"
    /\ UNCHANGED <<mode, dry_run, fs, inifile, updates, commander, n_errors,
                   call, ret>>

\* one turn of the loop of process_theme
process_theme ==
    /\ pc = "process"
    /\ LET r == process_app(apps[cursor], fs, mode)
       IN  /\ events' = events \o r.evs \o <<Event(r.out, apps[cursor].name)>>
           /\ apps' = [apps EXCEPT ![cursor] = r.app]
           /\ fs' = r.fs
           /\ IF r.exc # "none"
              THEN /\ pc' = IF r.exc = "SystemExit" THEN "exit" ELSE "crashed"
                   /\ UNCHANGED <<commander, updates, cursor>>
              ELSE /\ IF r.app.error.occurred
                      THEN UNCHANGED <<commander, updates>>
                      ELSE /\ commander' = Append(commander,
                                  [name |-> r.app.name, cmd |-> r.app.cmd])
                           /\ updates' = updates + 1
                   /\ cursor' = cursor + 1
                   /\ pc' = IF cursor = Len(apps) THEN "handle" ELSE "process"
    /\ UNCHANGED <<mode, dry_run, inifile, cmds, wallpaper, PROGRAMS_RESTART,
                   n_errors, call, ret>>

\* what handle_theme_updates does after the wallpaper: the gate, the actions,
\* the commands of the commander and the restarts
after_gate(running, result) ==
    IF ~has_updates(updates) THEN [exc |-> "none", evs |-> <<>>]
    ELSE IF load_all(cmds, mode, result).exc # "none"
    THEN load_all(cmds, mode, result)
    ELSE IF Commander_run(commander, dry_run, result).exc # "none"
    THEN then(load_all(cmds, mode, result), Commander_run(commander, dry_run, result))
    ELSE then(then(load_all(cmds, mode, result),
                   Commander_run(commander, dry_run, result)),
              restart_all(PROGRAMS_RESTART, running, dry_run))

\* handle_theme_updates; the environment answers whether the random
\* wallpaper directory is usable, whether the wallpaper path is a file, which
\* programs of the restart list are running and what becomes of the commands
\* that are run
handle_theme_updates ==
    /\ pc = "handle"
    /\ \E randx_ok \in BOOLEAN, is_file \in BOOLEAN, result \in ProcResults,
          running \in SUBSET {PROGRAMS_RESTART[i] : i \in 1..Len(PROGRAMS_RESTART)} :
          LET w == IF wallpaper.present
                   THEN Wallpaper_set(wallpaper, mode, randx_ok, is_file, result)
                   ELSE [exc |-> "none", evs |-> <<>>]
              g == IF w.exc # "none" THEN [exc |-> w.exc, evs |-> <<>>]
                   ELSE after_gate(running, result)
          IN  /\ n_errors' = errors(apps) +
                     (IF wallpaper.present /\ w.exc = "none" /\ wallpaper.error.occurred
                      THEN 1 ELSE 0)
              /\ events' = events \o w.evs \o g.evs
              /\ pc' = IF g.exc = "none" THEN "done" ELSE "crashed"
    /\ UNCHANGED <<mode, dry_run, fs, inifile, apps, cmds, wallpaper,
                   PROGRAMS_RESTART, updates, commander, cursor, call, ret>>

Next ==
    \/ initialize_theme
    \/ process_theme
    \/ handle_theme_updates

Spec == Init /\ [][Next]_vars

----------------------------------------------------------------------------
(* A theme run started without -m: args.mode is None (any other word than
   light and dark is refused by the argument parser) *)

NoModeInit ==
    /\ pc = "start"
    /\ mode = MODE_NONE
    /\ dry_run \in BOOLEAN
    /\ fs \in FileSystems
    /\ inifile \in {[programs |-> d, wallpaper |-> w, restart |-> r] :
                        d \in Documents, w \in WallpaperSections,
                        r \in RestartSections}
    /\ apps = <<>>
    /\ cmds = <<>>
    /\ wallpaper = NoWallpaper
    /\ PROGRAMS_RESTART = <<>>
    /\ updates = 0
    /\ commander = <<>>
    /\ n_errors = 0
    /\ events = <<>>
    /\ cursor = 0
    /\ call = <<>>
    /\ ret = <<>>

NoModeSpec == NoModeInit /\ [][Next]_vars

----------------------------------------------------------------------------
(* A theme run during which a target file is removed by another program *)

\* between two applications of the loop of process_theme a file that was
\* there at validation disappears (at most one file in a run)
file_disappears ==
    /\ pc = "process"
    /\ \A p \in Paths : fs[p].exists
    /\ \E p \in Paths : fs' = [fs EXCEPT ![p] = [exists |-> FALSE, lines |-> <<>>]]
    /\ UNCHANGED <<pc, mode, dry_run, inifile, apps, cmds, wallpaper,
                   PROGRAMS_RESTART, updates, commander, n_errors, events, cursor,
                   call, ret>>

IoNext ==
    \/ initialize_theme
    \/ process_theme
    \/ handle_theme_updates
    \/ file_disappears

IoSpec == Init /\ [][IoNext]_vars

----------------------------------------------------------------------------
(* One application: Theme.get (App.new, App.validate), process_app, and the
   change check of a following invocation *)

\* the most lines in the target file of the application
MaxLines == 2

QP == <<PH>>
QPB == <<PH, "b">>
QPP == <<PH, PH>>

AppQueries == {QT, QA, QP, QPB, QPP, QNoPH, <<>>}

\* values of light and dark: 'a', 'b', 'a b' and a missing one
AppValues == {tA, tB, <<"a", " ", "b">>, <<>>}

\* lines 'ta', 'tb', 'aa', 'ab', 'a b', 'tdark'
AppLines ==
    {<<"t", "a">>, <<"t", "b">>, <<"a", "a">>, <<"a", "b">>, <<"a", " ", "b">>,
     <<"t">> \o ModeText("dark")}

Contents(lines) == UNION {[1..n -> lines] : n \in 0..MaxLines}

\* f1 holds any content; an application may also name no file or a missing one
AppInit ==
    /\ pc = "new"
    /\ mode \in Modes
    /\ dry_run \in BOOLEAN
    /\ \E c \in Contents(AppLines) :
          fs = [p \in Paths |-> IF p = "f1" THEN File(c) ELSE File(<<>>)]
    /\ \E f \in {"f1", NoPath, ""}, q \in AppQueries, l \in AppValues, d \in AppValues :
          /\ f # "f1" => fs["f1"].lines = <<>> /\ q = QT /\ l = tA /\ d = tB
          /\ apps = <<App_new([name |-> "s1", file |-> f, query |-> q, light |-> l,
                               dark |-> d, cmd |-> "reload1"], dry_run)>>
    /\ inifile = <<>>
    /\ cmds = <<>>
    /\ wallpaper = NoWallpaper
    /\ PROGRAMS_RESTART = <<>>
    /\ updates = 0
    /\ commander = <<>>
    /\ n_errors = 0
    /\ events = <<>>
    /\ cursor = 1
    /\ call = <<>>
    /\ ret = FALSE

\* Theme.get: the new record is validated
App_validate ==
    /\ pc = "new"
    /\ apps' = <<validate(apps[1], fs).app>>
    /\ events' = events \o validate(apps[1], fs).evs
    /\ pc' = "validated"
    /\ UNCHANGED <<mode, dry_run, fs, inifile, cmds, wallpaper, PROGRAMS_RESTART,
                   updates, commander, n_errors, cursor, call, ret>>

\* what process_app leaves behind
processed(r) ==
    /\ apps' = <<r.app>>
    /\ fs' = r.fs
    /\ events' = events \o r.evs \o <<Event(r.out, r.app.name)>>
    /\ pc' = IF r.exc = "none" THEN "processed" ELSE "crashed"

\* parse_and_exit: process_app(app, args.mode)
App_process ==
    /\ pc = "validated"
    /\ processed(process_app(apps[1], fs, mode))
    /\ UNCHANGED <<mode, dry_run, inifile, cmds, wallpaper, PROGRAMS_RESTART,
                   updates, commander, n_errors, cursor, call, ret>>

\* what has_changes leaves behind
checked(h) ==
    /\ apps' = <<h.app>>
    /\ events' = events \o h.evs
    /\ ret' = h.ret
    /\ pc' = IF h.exc = "none" THEN "checked" ELSE "crashed"

\* App.has_changes with the same mode, as the next update would call it
App_has_changes ==
    /\ pc = "processed"
    /\ checked(has_changes(apps[1], fs, mode))
    /\ UNCHANGED <<mode, dry_run, fs, inifile, cmds, wallpaper, PROGRAMS_RESTART,
                   updates, commander, n_errors, cursor, call>>

AppNext ==
    \/ App_validate
    \/ App_process
    \/ App_has_changes

AppSpec == AppInit /\ [][AppNext]_vars

----------------------------------------------------------------------------
(* find, called on any query and any lines *)

FindQueries ==
    AppQueries \cup {<<"a", PH, "b">>, <<" ", PH>>, <<PH, " ", PH>>, <<"t", " ">>}

\* the lines above and '', 'b a', 'aab', ' ab', 't'
FindLines ==
    AppLines \cup {<<>>, <<"b", " ", "a">>, <<"a", "a", "b">>, <<" ", "a", "b">>,
                   <<"t">>}

FindInit ==
    /\ pc = "call"
    /\ call \in {[query |-> q, lines |-> l] :
                    q \in FindQueries, l \in Contents(FindLines)}
    /\ ret = NOT_FOUND
    /\ mode = "light"
    /\ dry_run = FALSE
    /\ fs = [p \in Paths |-> File(<<>>)]
    /\ inifile = <<>>
    /\ apps = <<>>
    /\ cmds = <<>>
    /\ wallpaper = NoWallpaper
    /\ PROGRAMS_RESTART = <<>>
    /\ updates = 0
    /\ commander = <<>>
    /\ n_errors = 0
    /\ events = <<>>
    /\ cursor = 0

Find ==
    /\ pc = "call"
    /\ ret' = find(call.query, call.lines)
    /\ pc' = "found"
    /\ UNCHANGED <<mode, dry_run, fs, inifile, apps, cmds, wallpaper,
                   PROGRAMS_RESTART, updates, commander, n_errors, events, cursor,
                   call>>

FindNext == Find

FindSpec == FindInit /\ [][FindNext]_vars

----------------------------------------------------------------------------
(* Wallpaper.new, called on any section *)

WallpaperFields == {"dark", "light", "random", "cmd"}

WallpaperValue(k) ==
    IF k = "dark" THEN "dark.png"
    ELSE IF k = "light" THEN "light.png"
    ELSE IF k = "random" THEN "walls"
    ELSE "feh"

\* a section in which each field is absent, empty or set
WallpaperData ==
    {[present |-> TRUE, opts |-> o,
      dark |-> IF "dark" \in e THEN "" ELSE WallpaperValue("dark"),
      light |-> IF "light" \in e THEN "" ELSE WallpaperValue("light"),
      random |-> IF "random" \in e THEN "" ELSE WallpaperValue("random"),
      cmd |-> IF "cmd" \in e THEN "" ELSE WallpaperValue("cmd")] :
        o \in SUBSET WallpaperFields, e \in SUBSET WallpaperFields}

WallpaperInit ==
    /\ pc = "call"
    /\ call \in WallpaperData
    /\ dry_run \in BOOLEAN
    /\ wallpaper = NoWallpaper
    /\ mode = "light"
    /\ fs = [p \in Paths |-> File(<<>>)]
    /\ inifile = <<>>
    /\ apps = <<>>
    /\ cmds = <<>>
    /\ PROGRAMS_RESTART = <<>>
    /\ updates = 0
    /\ commander = <<>>
    /\ n_errors = 0
    /\ events = <<>>
    /\ cursor = 0
    /\ ret = <<>>

Wallpaper_new_call ==
    /\ pc = "call"
    /\ wallpaper' = Wallpaper_new(call, dry_run)
    /\ pc' = "made"
    /\ UNCHANGED <<mode, dry_run, fs, inifile, apps, cmds, PROGRAMS_RESTART,
                   updates, commander, n_errors, events, cursor, call, ret>>

WallpaperNext == Wallpaper_new_call

WallpaperSpec == WallpaperInit /\ [][WallpaperNext]_vars

----------------------------------------------------------------------------
(* Loading a document: INIFile.read and INIFile.parse, which a process may
   call more than once on one INIFile (get_app reads and parses, and
   Theme.parse_apps reads and parses again) *)

\* the most passes (read, then parse) over the document
MaxPasses == 2

\* the names of the sections of the document, in order
SectionsOf(ini) ==
    (IF ini.wallpaper.present THEN <<"wallpaper">> ELSE <<>>)
    \o [i \in 1..Len(ini.programs) |-> ini.programs[i].name]
    \o (IF ini.restart.present THEN <<"restart">> ELSE <<>>)

\* s with the elements of t that it does not hold yet appended
RECURSIVE Merged(_, _)
Merged(s, t) ==
    IF t = <<>> THEN s
    ELSE IF \E i \in 1..Len(s) : s[i] = Head(t) THEN Merged(s, Tail(t))
    ELSE Merged(Append(s, Head(t)), Tail(t))

IsReserved(n) == n \in {"wallpaper", "restart"}
IsProgram(n) == ~IsReserved(n)

LoadInit ==
    /\ pc = "new"
    /\ inifile \in {[programs |-> d, wallpaper |-> w, restart |-> r] :
                        d \in Documents, w \in WallpaperSections,
                        r \in RestartSections}
    /\ call = <<>>
    /\ ret = <<>>
    /\ PROGRAMS_RESTART = <<>>
    /\ cursor = 0
    /\ mode = "light"
    /\ dry_run = FALSE
    /\ fs = [p \in Paths |-> File(<<>>)]
    /\ apps = <<>>
    /\ cmds = <<>>
    /\ wallpaper = NoWallpaper
    /\ updates = 0
    /\ commander = <<>>
    /\ n_errors = 0
    /\ events = <<>>

\* INIFile.read: the sections of the file are read into the parser, which
\* keeps the sections it holds; call is the working set of sections
INIFile_read ==
    /\ pc \in {"new", "parsed"}
    /\ cursor < MaxPasses
    /\ call' = Merged(call, SectionsOf(inifile))
    /\ pc' = IF Merged(call, SectionsOf(inifile)) = <<>> THEN "crashed" ELSE "read"
    /\ UNCHANGED <<mode, dry_run, fs, inifile, apps, cmds, wallpaper,
                   PROGRAMS_RESTART, updates, commander, n_errors, events, cursor,
                   ret>>

\* INIFile.parse: parse_restart and parse_wallpaper take their sections out
\* of the working set, parse_raw_program copies those that are left; ret is
\* the names of the parsed data, in order
INIFile_parse ==
    /\ pc = "read"
    /\ PROGRAMS_RESTART' =
          parse_restart([restart |-> [present |-> \E i \in 1..Len(call) :
                                                     call[i] = "restart",
                                      cmd |-> inifile.restart.cmd]],
                        PROGRAMS_RESTART)
    /\ call' = SelectSeq(call, IsProgram)
    /\ ret' = Merged(Merged(ret, SelectSeq(call, LAMBDA n : n = "wallpaper")),
                     SelectSeq(call, IsProgram))
    /\ cursor' = cursor + 1
    /\ pc' = "parsed"
    /\ UNCHANGED <<mode, dry_run, fs, inifile, apps, cmds, wallpaper, updates,
                   commander, n_errors, events>>

LoadNext ==
    \/ INIFile_read
    \/ INIFile_parse

LoadSpec == LoadInit /\ [][LoadNext]_vars

----------------------------------------------------------------------------
(* Theme.register_app and Theme.register_cmd, called in any order *)

\* the most registrations
MaxCalls == 4

\* applications of two names, two of each name
AppsToRegister ==
    {App_new([name |-> n, file |-> "f1", query |-> QT, light |-> tA, dark |-> tB,
              cmd |-> c], FALSE) : n \in {"s1", "s2"}, c \in {"reload1", "reload3"}}

ActionsToRegister ==
    {ModeAction_new([name |-> n, light |-> tA, dark |-> tB, cmd |-> "act"], FALSE) :
        n \in {"s3", "s4"}}

RegisterInit ==
    /\ pc = "register"
    /\ apps = <<>>
    /\ cmds = <<>>
    /\ call = <<>>
    /\ ret = <<>>
    /\ cursor = 0
    /\ mode = "light"
    /\ dry_run = FALSE
    /\ fs = [p \in Paths |-> File(<<>>)]
    /\ inifile = <<>>
    /\ wallpaper = NoWallpaper
    /\ PROGRAMS_RESTART = <<>>
    /\ updates = 0
    /\ commander = <<>>
    /\ n_errors = 0
    /\ events = <<>>

\* theme.register_app(app); call keeps the applications passed so far
Theme_register_app ==
    /\ pc = "register"
    /\ Len(call) + Len(ret) < MaxCalls
    /\ \E app \in AppsToRegister :
          /\ apps' = register_app(apps, app)
          /\ call' = Append(call, app)
    /\ UNCHANGED <<pc, mode, dry_run, fs, inifile, cmds, wallpaper,
                   PROGRAMS_RESTART, updates, commander, n_errors, events, cursor,
                   ret>>

\* theme.register_cmd(cmd); ret keeps the actions passed so far
Theme_register_cmd ==
    /\ pc = "register"
    /\ Len(call) + Len(ret) < MaxCalls
    /\ \E cmd \in ActionsToRegister :
          /\ cmds' = register_cmd(cmds, cmd)
          /\ ret' = Append(ret, cmd)
    /\ UNCHANGED <<pc, mode, dry_run, fs, inifile, apps, wallpaper,
                   PROGRAMS_RESTART, updates, commander, n_errors, events, cursor,
                   call>>

RegisterNext ==
    \/ Theme_register_app
    \/ Theme_register_cmd

RegisterSpec == RegisterInit /\ [][RegisterNext]_vars

----------------------------------------------------------------------------
(* Differ.changes, called directly on two texts *)

\* the longest text compared
MaxText == 2

DiffChars == {"a", "b", "-"}

DiffTexts == UNION {[1..n -> DiffChars] : n \in 0..MaxText}

NEWLINE == "\n"

\* a mutant of Differ.changes: the markers are written for equal inputs too
Differ_changes_always_marked(original, updated) ==
    <<"-", SPACE>> \o original \o <<NEWLINE>> \o <<"+", SPACE>> \o updated

\* Differ.changes(original, updated)
Differ_changes(original, updated) ==
    IF original = updated
    THEN original
    ELSE <<"-", SPACE>> \o original \o <<NEWLINE>> \o <<"+", SPACE>> \o updated

DiffInit ==
    /\ pc = "diff"
    /\ call \in {[original |-> o, updated |-> u] : o, u \in DiffTexts}
    /\ ret = <<>>
    /\ cursor = 0
    /\ mode = "light"
    /\ dry_run = FALSE
    /\ fs = [p \in Paths |-> File(<<>>)]
    /\ inifile = <<>>
    /\ apps = <<>>
    /\ cmds = <<>>
    /\ wallpaper = NoWallpaper
    /\ PROGRAMS_RESTART = <<>>
    /\ updates = 0
    /\ commander = <<>>
    /\ n_errors = 0
    /\ events = <<>>

\* got = diff.changes(text1, text2)
Differ_changes_call ==
    /\ pc = "diff"
    /\ ret' = Differ_changes(call.original, call.updated)
    /\ pc' = "diffed"
    /\ UNCHANGED <<mode, dry_run, fs, inifile, apps, cmds, wallpaper,
                   PROGRAMS_RESTART, updates, commander, n_errors, events, cursor,
                   call>>

DiffNext == Differ_changes_call

DiffSpec == DiffInit /\ [][DiffNext]_vars

----------------------------------------------------------------------------
(* ModeAction.load, called directly *)

ActionValues == {<<>>, tA, tB}

\* the modes an action is loaded with: the two modes, no mode, another word
ActionModes == Modes \cup {MODE_NONE, "nonexistentmode"}

ModeActionInit ==
    /\ pc = "action"
    /\ mode \in ActionModes
    /\ dry_run \in BOOLEAN
    /\ call \in {ModeAction_new([name |-> "s3", light |-> l, dark |-> d, cmd |-> c],
                                dry_run) :
                    l \in ActionValues, d \in ActionValues, c \in {"act", "act2"}}
    /\ ret = <<>>
    /\ cursor = 0
    /\ fs = [p \in Paths |-> File(<<>>)]
    /\ inifile = <<>>
    /\ apps = <<>>
    /\ cmds = <<>>
    /\ wallpaper = NoWallpaper
    /\ PROGRAMS_RESTART = <<>>
    /\ updates = 0
    /\ commander = <<>>
    /\ n_errors = 0
    /\ events = <<>>

\* cmd.load(mode); ret keeps the text handed to SysOps.run
ModeAction_load_call ==
    /\ pc = "action"
    /\ \E result \in ProcResults :
          /\ events' = events \o ModeAction_load(call, mode, result).evs
          /\ pc' = IF ModeAction_load(call, mode, result).exc # "none"
                   THEN "crashed" ELSE "loaded"
    /\ ret' = IF \E i \in 1..Len(events') : events'[i].op = "action"
              THEN ModeAction_command(call, mode)
              ELSE <<>>
    /\ UNCHANGED <<mode, dry_run, fs, inifile, apps, cmds, wallpaper,
                   PROGRAMS_RESTART, updates, commander, n_errors, cursor, call>>

ModeActionNext == ModeAction_load_call

ModeActionSpec == ModeActionInit /\ [][ModeActionNext]_vars

----------------------------------------------------------------------------
(* A single application: parse_and_exit with an application name *)

\* the names given with -a: two sections and a name of no section
AppNames == {"s1", "s2", "wallpaper", "s9"}

\* the section of the document that INIFile.get finds for a name: after parse
\* the parser holds the program sections only
SectionOf(ini, appname) ==
    SelectSeq(ini.programs, LAMBDA v : v.name = appname)

\* a theme as for a theme run, with or without a complete wallpaper section
SingleAppInit ==
    /\ pc = "start"
    /\ mode \in Modes \cup {MODE_NONE}
    /\ dry_run \in BOOLEAN
    /\ fs \in {f \in FileSystems : f["f2"].lines # <<>>}
    /\ inifile \in {[programs |-> d, wallpaper |-> w, restart |-> r] :
                        d \in Documents,
                        w \in {v \in WallpaperSections : v.present => v.cmd # ""},
                        r \in RestartSections}
    /\ call \in AppNames
    /\ apps = <<>>
    /\ cmds = <<>>
    /\ wallpaper = NoWallpaper
    /\ PROGRAMS_RESTART = <<>>
    /\ updates = 0
    /\ commander = <<>>
    /\ n_errors = 0
    /\ events = <<>>
    /\ cursor = 0
    /\ ret = <<>>

\* get_app: the document is read and parsed, the section of the name is
\* made an application and validated; without such a section the run exits
get_app ==
    /\ pc = "start"
    /\ IF SectionsOf(inifile) = <<>>
       THEN /\ pc' = "crashed"
            /\ UNCHANGED <<apps, events, PROGRAMS_RESTART>>
       ELSE /\ PROGRAMS_RESTART' = parse_restart(inifile, PROGRAMS_RESTART)
            /\ IF SectionOf(inifile, call) = <<>>
               THEN /\ pc' = "exit"
                    /\ UNCHANGED <<apps, events>>
               ELSE /\ apps' = <<validate(App_new(SectionOf(inifile, call)[1],
                                                  dry_run), fs).app>>
                    /\ events' = events \o
                          validate(App_new(SectionOf(inifile, call)[1], dry_run),
                                   fs).evs
                    /\ pc' = "got"
    /\ UNCHANGED <<mode, dry_run, fs, inifile, cmds, wallpaper, updates, commander,
                   n_errors, cursor, call, ret>>

\* a mutant of single_app: the command of the application is run after it
single_app_running_cmd(app, fsys, m) ==
    [process_app(app, fsys, m) EXCEPT
        !.evs = @ \o <<Event(process_app(app, fsys, m).out, app.name),
                       Event("cmd", app.name)>>,
        !.out = "exit"]

\* the branch of parse_and_exit for an application: process_app, then
\* sys.exit(0)
single_app(app, fsys, m) ==
    IF process_app(app, fsys, m).exc # "none"
    THEN process_app(app, fsys, m)
    ELSE [process_app(app, fsys, m) EXCEPT
             !.evs = @ \o <<Event(process_app(app, fsys, m).out, app.name)>>,
             !.out = "exit"]

parse_and_exit ==
    /\ pc = "got"
    /\ apps' = <<single_app(apps[1], fs, mode).app>>
    /\ fs' = single_app(apps[1], fs, mode).fs
    /\ events' = events \o single_app(apps[1], fs, mode).evs
    /\ pc' = IF single_app(apps[1], fs, mode).exc \in {"none", "SystemExit"}
             THEN "exit" ELSE "crashed"
    /\ UNCHANGED <<mode, dry_run, inifile, cmds, wallpaper, PROGRAMS_RESTART,
                   updates, commander, n_errors, cursor, call, ret>>

SingleAppNext ==
    \/ get_app
    \/ parse_and_exit

SingleAppSpec == SingleAppInit /\ [][SingleAppNext]_vars

----------------------------------------------------------------------------
(* Properties *)

\* how often the run did op for (or to) who
Count(op, who) ==
    Cardinality({i \in 1..Len(events) : events[i].op = op /\ events[i].who = who})

Happened(op) == \E i \in 1..Len(events) : events[i].op = op

\* what process_app reported for an application
Outcomes == {"err", "no changes", "err not updated", "dry run", "applied"}

OutcomesOf(who) ==
    {i \in 1..Len(events) : events[i].op \in Outcomes /\ events[i].who = who}

\* the downstream actions of a run
Downstream == {"action", "cmd", "wallpaper", "signal"}

\* C1: a run that ends with no applied update has run no mode-keyed action
\* and no application command, has not set the wallpaper and has sent no
\* restart signal.
C1_HardGate ==
    (pc = "done" /\ updates = 0) =>
        \A i \in 1..Len(events) : events[i].op \notin Downstream

\* C2: once every application is processed, Theme.updates is the number of
\* applications whose file was written in the run.
C2_UpdatesCountWrites ==
    pc \in {"handle", "done"} =>
        updates = Cardinality({i \in 1..Len(events) : events[i].op = "write"})

\* C3: under dry-run no step of the run changes the content of any file.
C3_DryRunNeverWrites == [][dry_run => fs' = fs]_vars

\* a dry run ended in which an application had a pending change
C3_Witness == dry_run /\ pc = "done" /\ Happened("dry run")

\* C4: after an update was applied, has_changes with the same mode is false.
C4_Idempotent == (pc = "checked" /\ Happened("applied")) => ret = FALSE

\* the matched line with the span captured by the placeholder replaced by value
SubstituteCaptured(query, line, value) ==
    LET pat == pattern(query)
        g   == CHOOSE k \in 1..Len(pat) :
                   pat[k] = GROUP /\ \A j \in 1..(k - 1) : pat[j] # GROUP
        gs  == search(pat, line) + g - 1
        n   == Len(group1(pat, line, search(pat, line)))
    IN  SubSeq(line, 1, gs - 1) \o value \o SubSeq(line, gs + n, Len(line))

\* C5: an applied update leaves the number of lines and every line but the
\* matched one as they were, and the matched line is the original line with
\* the captured value replaced by the value of the mode.
C5_OnlyCapturedValueSubstituted ==
    [][(pc = "validated" /\ events'[Len(events')].op = "applied") =>
         LET old == fs[apps[1].file].lines
             new == fs'[apps[1].file].lines
             k   == find(apps[1].query, old).idx + 1
         IN  /\ Len(new) = Len(old)
             /\ \A j \in 1..Len(old) : j # k => new[j] = old[j]
             /\ new[k] = SubstituteCaptured(apps[1].query, old[k],
                                            get_mode(apps[1], mode))]_vars

\* the value the query captures in the file of the application is the value
\* configured for the mode
CapturedIsConfigured ==
    /\ apps[1].file = "f1"
    /\ find(apps[1].query, fs["f1"].lines).idx # -1
    /\ find(apps[1].query, fs["f1"].lines).value = get_mode(apps[1], mode)

\* C6: when the captured value is the value configured for the mode,
\* has_changes is false: the update reports no changes and writes nothing, and
\* a direct call returns FALSE.
C6_NoChangeWhenCurrent ==
    [][/\ (pc = "validated" /\ ~apps[1].error.occurred /\ CapturedIsConfigured) =>
            (events'[Len(events')].op = "no changes" /\ fs' = fs)
       /\ (pc = "processed" /\ CapturedIsConfigured) =>
            (pc' = "checked" /\ ret' = FALSE)]_vars

\* has_changes returned FALSE for a value that is current on the second line
\* of the file
C6_Witness ==
    /\ pc = "checked"
    /\ ret = FALSE
    /\ CapturedIsConfigured
    /\ find(apps[1].query, fs["f1"].lines).idx = 1
    /\ Happened("no changes")

HasPlaceholder(query) == \E i \in 1..Len(query) : query[i] = PH

\* C7: find returns (-1, "") when the lines are empty, the query is empty or
\* the query holds no placeholder.
C7_FindFailsSoft ==
    (pc = "found" /\ (call.lines = <<>> \/ call.query = <<>>
                      \/ ~HasPlaceholder(call.query)))
        => ret = NOT_FOUND

\* s occurs in line
Contains(line, s) == \E i \in 1..(Len(line) + 1) : StartsAt(line, s, i)

\* find was called with lines of which one holds the query, which has no
\* placeholder
C7_Witness ==
    /\ pc = "found"
    /\ call.query # <<>>
    /\ ~HasPlaceholder(call.query)
    /\ \E i \in 1..Len(call.lines) : Contains(call.lines[i], call.query)

\* the non-empty runs of non-whitespace characters of a line
NonSpaceRuns(line) ==
    {SubSeq(line, i, j) : i \in 1..Len(line), j \in 1..Len(line)} \
        {r \in {SubSeq(line, i, j) : i \in 1..Len(line), j \in 1..Len(line)} :
            r = <<>> \/ \E k \in 1..Len(r) : r[k] = SPACE}

\* the query with every placeholder replaced by a run of the line; first is
\* the set the first placeholder is replaced from
RECURSIVE Instances(_, _, _)
Instances(query, line, first) ==
    IF query = <<>> THEN {<<>>}
    ELSE IF Head(query) = PH
         THEN {v \o t : v \in first,
                        t \in Instances(Tail(query), line, NonSpaceRuns(line))}
         ELSE {<<Head(query)>> \o t : t \in Instances(Tail(query), line, first)}

\* line holds the query with the placeholder replaced by non-whitespace
LineMatches(query, line) ==
    \E s \in Instances(query, line, NonSpaceRuns(line)) : Contains(line, s)

\* line holds the query with its (first) placeholder replaced by value
LineCaptures(query, line, value) ==
    /\ value \in NonSpaceRuns(line)
    /\ \E s \in Instances(query, line, {value}) : Contains(line, s)

\* C8: for a query with the placeholder, find returns the lowest index of a
\* line that holds the query with the placeholder replaced by non-whitespace
\* characters, with the text captured on that line, and (-1, "") when no line
\* does.
C8_FindFirstMatch ==
    (pc = "found" /\ HasPlaceholder(call.query)) =>
        LET hits == {i \in 1..Len(call.lines) : LineMatches(call.query, call.lines[i])}
        IN  IF hits = {} THEN ret = NOT_FOUND
            ELSE /\ ret.idx + 1 \in hits
                 /\ \A i \in hits : ret.idx + 1 <= i
                 /\ LineCaptures(call.query, call.lines[ret.idx + 1], ret.value)

\* find returned the second line, which matches away from its start
C8_Witness ==
    /\ pc = "found"
    /\ ret.idx = 1
    /\ ~MatchFrom(pattern(call.query), call.lines[2], 1)

C10_InvalidSkipped ==
    /\ [](\A i \in 1..Len(apps) :
             apps[i].error.occurred => Count("write", apps[i].name) = 0)
    /\ [](pc \in {"handle", "done"} =>
             \A i \in 1..Len(apps) : Cardinality(OutcomesOf(apps[i].name)) = 1)
    /\ [](pc = "done" =>
             n_errors >= Cardinality({i \in 1..Len(apps) :
                                         Count("err", apps[i].name) = 1}))
    /\ [][(pc = "process" /\ apps[cursor].error.occurred) =>
             /\ fs' = fs
             /\ cursor' = cursor + 1
             /\ pc' \in {"process", "handle"}
             /\ events' = events \o <<Event("err", apps[cursor].name)>>]_vars

\* a run ended in which an application was skipped for its error and a later
\* one was updated
C10_Witness ==
    /\ pc = "done"
    /\ \E i \in 1..Len(events), j \in 1..Len(events) :
          i < j /\ events[i].op = "err" /\ events[j].op = "applied"

\* one of the six conditions App.validate looks at holds for the record
AnyInvalid(app, fsys) ==
    \/ app.file = ""
    \/ ~exists(fsys, app.file)
    \/ app.query = <<>>
    \/ ~HasPlaceholder(app.query)
    \/ app.light = <<>>
    \/ app.dark = <<>>

\* the message of the last of the six conditions that is checked and fails:
\* an empty file, an empty query, a query without placeholder and a missing
\* file end the checks, an empty dark or light value does not
LastFailed(app, fsys) ==
    IF app.file = "" THEN "no file specified."
    ELSE IF app.query = <<>> THEN "no query specified."
    ELSE IF ~HasPlaceholder(app.query)
    THEN "query does not contain placeholder '{theme}'."
    ELSE IF ~exists(fsys, app.file) THEN "filepath do not exists."
    ELSE IF app.light = <<>> THEN "no light theme specified."
    ELSE "no dark theme specified."

\* C11: after validate, a record for which one of the six conditions holds
\* has its error set, and the message kept is the one of the last condition
\* that was checked and failed.
C11_ValidateMarksInvalid ==
    (pc = "validated" /\ AnyInvalid(apps[1], fs)) =>
        /\ apps[1].error.occurred
        /\ apps[1].error.mesg = LastFailed(apps[1], fs)

\* C12: after validate, a record whose file exists, whose query holds the
\* placeholder and whose light and dark values are set has no error, whatever
\* the file holds.
C12_ValidLeavesNoError ==
    (pc = "validated" /\ ~AnyInvalid(apps[1], fs)) => ~apps[1].error.occurred

\* what a run does to the system: a file written, a command run, the
\* wallpaper set, a process looked up or signalled
Mutations == Downstream \cup {"write", "pidof"}

\* C13: a run whose mode is neither light nor dark does not end normally and
\* writes no file, runs no command, sets no wallpaper and restarts nothing.
C13_UnknownModeIsFatal ==
    mode \notin {"light", "dark"} =>
        /\ pc # "done"
        /\ \A i \in 1..Len(events) : events[i].op \notin Mutations

\* C14: with a wallpaper record that has an error, handle_theme_updates
\* reports the wallpaper error, runs no wallpaper command and, past the gate,
\* still loads every mode-keyed action and runs every command of the
\* commander.
C14_WallpaperFailsSoft ==
    [][(pc = "handle" /\ wallpaper.present /\ wallpaper.error.occurred) =>
         /\ \E i \in 1..Len(events') : events'[i].op = "wallpaper err"
         /\ \A i \in 1..Len(events') : events'[i].op # "wallpaper"
         /\ has_updates(updates) =>
               /\ \A k \in 1..Len(cmds) :
                     \E i \in 1..Len(events') :
                        /\ events'[i].op \in {"action", "action dry run"}
                        /\ events'[i].who = cmds[k].name
               /\ \A k \in 1..Len(commander) :
                     commander[k].cmd # "" =>
                        \E i \in 1..Len(events') :
                           /\ events'[i].op \in {"cmd", "cmd dry run"}
                           /\ events'[i].who = commander[k].name]_vars

\* the fields of the section that are absent or empty
MissingFields(data) == {k \in WallpaperFields : k \notin data.opts \/ data[k] = ""}

\* the message for the last missing field in the order dark, light, random, cmd
LastMissingMessage(missing) ==
    IF "cmd" \in missing THEN "no 'cmd' wallpaper specified."
    ELSE IF "random" \in missing THEN "no 'random' wallpaper specified."
    ELSE IF "light" \in missing THEN "no 'light' wallpaper specified."
    ELSE IF "dark" \in missing THEN "no 'dark' wallpaper specified."
    ELSE ""

\* C15: the record Wallpaper.new makes has its error set exactly when one of
\* dark, light, random, cmd is absent or empty, and the message kept names the
\* last missing field in the order dark, light, random, cmd.
C15_WallpaperNewMarksMissing ==
    pc = "made" =>
        /\ wallpaper.error.occurred <=> MissingFields(call) # {}
        /\ wallpaper.error.mesg = LastMissingMessage(MissingFields(call))

\* a record was made from a section without dark and with an empty random
C15_Witness ==
    /\ pc = "made"
    /\ "dark" \notin call.opts
    /\ "random" \in call.opts /\ call.random = ""
    /\ MissingFields(call) = {"dark", "random"}
    /\ wallpaper.error.mesg = "no 'random' wallpaper specified."

IsSignal(e) == e.op = "signal"

\* the names passed to SysOps.send_signal, in order
Signalled ==
    [i \in 1..Len(SelectSeq(events, IsSignal)) |-> SelectSeq(events, IsSignal)[i].who]

\* C16: a run without dry-run that applied an update has, when it ends,
\* signalled every name of the restart list, in the order of the list; a run
\* that applied no update has signalled none.
C16_RestartsFollowUpdates ==
    pc \in {"done", "crashed"} =>
        /\ (~dry_run /\ Happened("applied")) => Signalled = PROGRAMS_RESTART
        /\ ~Happened("applied") => Signalled = <<>>

\* C17: the run does not end on a name of the restart list for which pidof
\* finds no process.
C17_PidNotFoundTolerated ==
    ~(pc = "crashed" /\ events # <<>> /\ events[Len(events)].op = "pidof")

\* C20: in a finished run the command of an application was run once when the
\* application was updated and its command is not empty, and not at all
\* otherwise.
C20_CommandsOfUpdatedApps ==
    pc = "done" =>
        \A i \in 1..Len(apps) :
            Count("cmd", apps[i].name) =
                IF Count("applied", apps[i].name) = 1 /\ apps[i].cmd # "" THEN 1 ELSE 0

\* C18: when the file of the application the loop is at has disappeared, the
\* failure stays with that application: the loop goes on to the next one.
C18_IoErrorIsLocal ==
    [][(/\ pc = "process"
        /\ ~apps[cursor].error.occurred
        /\ ~exists(fs, apps[cursor].file)
        /\ cursor' # cursor \/ pc' # pc) =>
          /\ pc' \in {"process", "handle"}
          /\ cursor' = cursor + 1]_vars

\* a command was started
Started == {"wallpaper", "action", "cmd"}

\* what is known of a command that failed: [err] is printed by SysOps.run for
\* an executable that is not found, exit 1 is the code of the process
Failures == {"[err]", "exit 1"}

AppsNamed(n) == Cardinality({i \in 1..Len(apps) : apps[i].name = n})
ActionsNamed(n) == Cardinality({i \in 1..Len(cmds) : cmds[i].name = n})

\* C21: once the document is parsed, a section with a file and a query is one
\* application and no action, a section without file and query is one action
\* and no application, every section of the document is exactly one of the
\* two, and the wallpaper and restart sections are neither.
C21_SectionsClassified ==
    cursor >= 1 =>
        /\ \A i \in 1..Len(inifile.programs) :
              LET sec == inifile.programs[i]
              IN  /\ (sec.file # "" /\ sec.query # <<>>) =>
                        AppsNamed(sec.name) = 1 /\ ActionsNamed(sec.name) = 0
                  /\ (sec.file = "" /\ sec.query = <<>>) =>
                        AppsNamed(sec.name) = 0 /\ ActionsNamed(sec.name) = 1
                  /\ AppsNamed(sec.name) + ActionsNamed(sec.name) = 1
        /\ \A n \in {"wallpaper", "restart"} : AppsNamed(n) + ActionsNamed(n) = 0

\* C22: after a pass over the document the restart list is the names of the
\* cmd key of the restart section, in order and once each, and the restart
\* section is neither in the working set of sections nor in the parsed data.
C22_RestartConsumedOnce ==
    pc = "parsed" =>
        /\ PROGRAMS_RESTART =
              (IF inifile.restart.present THEN inifile.restart.cmd ELSE <<>>)
        /\ \A i \in 1..Len(call) : call[i] # "restart"
        /\ \A i \in 1..Len(ret) : ret[i] # "restart"

\* C23: the applications of the theme are, for every name that was
\* registered, the application of the first registration of that name, one
\* for each name; the actions of the theme are the actions that were
\* registered, one for each call.
C23_RegisterOncePerName ==
    pc = "register" =>
        /\ Len(apps) = Cardinality({call[i].name : i \in 1..Len(call)})
        /\ \A i \in 1..Len(call) :
              (\A j \in 1..(i - 1) : call[j].name # call[i].name) =>
                  \E k \in 1..Len(apps) : apps[k] = call[i]
        /\ cmds = ret

\* a name was registered twice, with two applications, and an action twice
C23_Witness ==
    /\ pc = "register"
    /\ \E i, j \in 1..Len(call) :
          i < j /\ call[i].name = call[j].name /\ call[i] # call[j]
    /\ Len(apps) < Len(call)
    /\ Len(cmds) = 2 /\ cmds[1] = cmds[2]

\* the number of line breaks of a text
Breaks(t) == Cardinality({i \in 1..Len(t) : t[i] = NEWLINE})

\* C24: the result of Differ.changes for two equal texts is the text itself;
\* for two different texts it is one line made of '- ' and the original, a
\* single line break, and one line made of '+ ' and the updated text.
C24_DifferChanges ==
    pc = "diffed" =>
        IF call.original = call.updated
        THEN ret = call.original
        ELSE /\ Len(ret) = Len(call.original) + Len(call.updated) + 5
             /\ SubSeq(ret, 1, 2) = <<"-", SPACE>>
             /\ SubSeq(ret, 3, Len(call.original) + 2) = call.original
             /\ ret[Len(call.original) + 3] = NEWLINE
             /\ SubSeq(ret, Len(call.original) + 4, Len(call.original) + 5) = <<"+", SPACE>>
             /\ SubSeq(ret, Len(call.original) + 6, Len(ret)) = call.updated
             /\ Breaks(ret) = 1

\* two equal texts that are not empty were compared, the text came back
C24_Witness ==
    /\ pc = "diffed"
    /\ call.original = call.updated
    /\ call.original # <<>>
    /\ ret = call.original

\* C25: an action loaded with light or dark and not in dry run starts one
\* command, the template followed by a blank and the value of that mode, and
\* returns; loaded with any other mode it raises and starts no command; in
\* dry run it starts no command, whatever the mode.
C25_ActionRunsModeValue ==
    pc \in {"loaded", "crashed"} =>
        /\ (mode \in Modes /\ ~call.dry_run) =>
              /\ pc = "loaded"
              /\ Count("action", call.name) = 1
              /\ ret = <<call.cmd, SPACE>> \o
                           (IF mode = "light" THEN call.light ELSE call.dark)
        /\ mode \notin Modes => pc = "crashed" /\ ~Happened("action") /\ ret = <<>>
        /\ call.dry_run => ~Happened("action") /\ ret = <<>>

\* an action whose two values differ was loaded with dark and started its
\* command
C25_Witness ==
    /\ pc = "loaded"
    /\ mode = "dark"
    /\ call.light # call.dark
    /\ Happened("action")
    /\ ret = <<call.cmd, SPACE>> \o call.dark

\* the place of an event in the order of a run: processing of the
\* applications, mode-keyed actions, application commands, wallpaper,
\* restarts; 0 for what SysOps.run reports of a command, which belongs to
\* the command before it
Stage(op) ==
    IF op \in {"read", "write"} \cup Outcomes THEN 1
    ELSE IF op \in {"action", "action dry run"} THEN 2
    ELSE IF op \in {"cmd", "cmd dry run"} THEN 3
    ELSE IF op \in {"wallpaper", "wallpaper err", "wallpaper dry run"} THEN 4
    ELSE IF op \in {"pidof", "signal"} THEN 5
    ELSE 0

\* C26: in a run with at least one update every application is processed
\* before the first downstream action, and the downstream actions come in the
\* order mode-keyed actions, application commands, wallpaper, restarts.
C26_DownstreamOrder ==
    (pc \in {"done", "crashed"} /\ updates > 0) =>
        \A i, j \in 1..Len(events) :
            (i < j /\ Stage(events[i].op) # 0 /\ Stage(events[j].op) # 0) =>
                Stage(events[i].op) <= Stage(events[j].op)

\* the query of the application matches a line of its file and the value it
\* captures is not the value configured for the mode
CapturedDiffers ==
    /\ apps[1].file = "f1"
    /\ find(apps[1].query, fs["f1"].lines).idx # -1
    /\ find(apps[1].query, fs["f1"].lines).value # get_mode(apps[1], mode)

\* C27: for an application that passed validation, when a line of the file
\* matches the query and the captured value is not the value configured for
\* the mode, has_changes returns TRUE.
C27_ChangeDetected ==
    [][(pc = "processed" /\ ~apps[1].error.occurred /\ CapturedDiffers) =>
          (pc' = "checked" /\ ret' = TRUE)]_vars

\* the line of the file that the query of the application matches
MatchedLine == fs["f1"].lines[find(apps[1].query, fs["f1"].lines).idx + 1]

\* C28: the replacement line that has_changes computes is the matched line
\* with the captured span replaced by the value of the mode; the text before
\* and after that span is the text of the matched line.
C28_ReplacementInsideSpan ==
    [][(/\ pc = "processed"
        /\ ~apps[1].error.occurred
        /\ apps[1].file = "f1"
        /\ find(apps[1].query, fs["f1"].lines).idx # -1
        /\ pc' = "checked") =>
          apps'[1].next_theme =
              SubstituteCaptured(apps[1].query, MatchedLine, get_mode(apps[1], mode))]_vars

\* the query of application i matches a line of its file
Matches(i) ==
    /\ apps[i].file \in Paths
    /\ ~apps[i].error.occurred
    /\ find(apps[i].query, fs[apps[i].file].lines).idx # -1

\* the value that the query of application i captures in its file
Captured(i) == find(apps[i].query, fs[apps[i].file].lines).value

\* C29: when a run without dry-run has processed two applications of one
\* file whose queries match different lines, both lines carry the values of
\* the mode: the write of one application does not undo the write of the
\* other.
C29_NoLostUpdate ==
    (pc \in {"handle", "done"} /\ ~dry_run) =>
        \A i, j \in 1..Len(apps) :
            (/\ i # j
             /\ Matches(i)
             /\ Matches(j)
             /\ apps[i].file = apps[j].file
             /\ find(apps[i].query, fs[apps[i].file].lines).idx #
                    find(apps[j].query, fs[apps[j].file].lines).idx) =>
                /\ Captured(i) = get_mode(apps[i], mode)
                /\ Captured(j) = get_mode(apps[j], mode)

\* two applications of one file have each applied an update, to two lines
C29_Witness ==
    /\ pc = "done"
    /\ ~dry_run
    /\ Len(apps) = 2
    /\ apps[1].file = "f1" /\ apps[2].file = "f1"
    /\ Count("applied", apps[1].name) = 1
    /\ Count("applied", apps[2].name) = 1
    /\ Matches(1) /\ Matches(2)
    /\ find(apps[1].query, fs["f1"].lines).idx # find(apps[2].query, fs["f1"].lines).idx
    /\ fs["f1"].lines = <<<<"a", "a">>, <<"t", "a">>>>

\* C30: a run for one application changes no file but the file of the
\* section of that name, and runs no mode-keyed action, no application
\* command, no wallpaper step and no restart.
C30_SingleAppTouchesOnlyItsFile ==
    /\ [](\A i \in 1..Len(events) : Stage(events[i].op) \in {0, 1}
                                       /\ events[i].op \notin Failures)
    /\ [][\A p \in Paths :
             fs'[p] # fs[p] =>
                 /\ SectionOf(inifile, call) # <<>>
                 /\ SectionOf(inifile, call)[1].file = p]_vars

\* the application of a theme with another application, a wallpaper and a
\* restart list was updated, alone
C30_Witness ==
    /\ pc = "exit"
    /\ Happened("applied")
    /\ Count("write", call) = 1
    /\ apps[1].cmd # ""
    /\ Len(inifile.programs) = 2
    /\ inifile.programs[1].file \in Paths /\ inifile.programs[2].file \in Paths
    /\ inifile.wallpaper.present
    /\ PROGRAMS_RESTART # <<>>

====
